---- MODULE Spec2Model ----
(***************************************************************************)
(* The WebChannel adapter of nanoclaw: a polling relay between the         *)
(* claw-chat web UI (HTTP) and the orchestrator (host callbacks).          *)
(*                                                                         *)
(* The repository holds two implementations of the adapter:                *)
(*   "skill" : the add-claw-chat skill's web.ts (src/unnamed/part_002,     *)
(*             lines 397-618, with its tests at lines 25-395);             *)
(*   "core"  : src/src/channels/web.ts.                                    *)
(* The variable impl says which one a behaviour runs; definitions whose    *)
(* name starts with web_ model src/src/channels/web.ts, the others model   *)
(* src/unnamed/part_002.                                                   *)
(***************************************************************************)
EXTENDS Integers, Sequences, FiniteSets, Bags, TLC

\* ------------------------------------------------------------------ bounds
MaxBatch  == 2   \* most items (registrations plus messages) of a fetched batch
MaxChains == 2   \* most activities alive at once: armed timers, polls in
                 \* flight (timer-driven or direct), suspended connect() calls,
                 \* sendMessage()/setTyping() calls in flight

\* ------------------------------------------------------------ value domains
NetErr   == 0                       \* fetch() itself rejected: no HTTP status
Statuses == {NetErr, 200, 503}      \* what one HTTP exchange can end in

Undefined == "<undefined>"          \* an absent JSON field / JS undefined
Now       == "<now>"                \* new Date().toISOString()

ConvA == <<"a">>
ConvB == <<"b">>

\* what the remote side can list in registrations[]
Registrations ==
  { [conversationId |-> ConvA, name |-> "Main",  folder |-> "web-a"],
    [conversationId |-> ConvB, name |-> "Other", folder |-> "web-b"] }

\* what the remote side can list in messages[]
Messages ==
  { [id |-> "m1", conversationId |-> ConvA, senderName |-> "Ann",
     content |-> "hello", createdAt |-> "t1"],
    [id |-> "m2", conversationId |-> ConvB, senderName |-> Undefined,
     content |-> "yo", createdAt |-> "t2"] }

SeqsUpTo(S, n) == UNION { [1..k -> S] : k \in 0..n }

\* a 2xx body of GET /api/internal/pending; isNull: the body was empty
Batches ==
  UNION { { [isNull |-> FALSE, registrations |-> r, messages |-> m] :
              m \in SeqsUpTo(Messages, MaxBatch - Len(r)) } :
          r \in SeqsUpTo(Registrations, MaxBatch) }
NullBody == [isNull |-> TRUE, registrations |-> <<>>, messages |-> <<>>]

\* ------------------------------------------------------------------ strings
\* jids and conversation ids are sequences of characters
WebPrefix == <<"w", "e", "b", ":">>

\* `web:${conversationId}`
jidOf(conversationId) == WebPrefix \o conversationId

\* String.prototype.slice(n)
slice(s, n) == IF n >= Len(s) THEN <<>> ELSE SubSeq(s, n + 1, Len(s))

\* String.prototype.startsWith(p)
startsWith(s, p) == Len(s) >= Len(p) /\ SubSeq(s, 1, Len(p)) = p

Jids == { jidOf(ConvA), jidOf(ConvB) }

\* res.ok of the fetch Response: status in 200..299
resOk(status) == status >= 200 /\ status <= 299

NoTimer  == 0
TimerIds == 1..(MaxChains + 1)

VARIABLES
  impl,         \* "skill" or "core": which implementation runs
  liveView,     \* host: registeredGroups() hands out the live map (TRUE) or a copy
                \* (only the skill implementation keeps what it returned)
  registry,     \* host: the jids of the registered-groups map
  connected,    \* WebChannel.connected (skill) / WebChannel.polling (core)
  pollTimer,    \* WebChannel.pollTimer: a timer handle, or NoTimer for null
  armed,        \* the setTimeout timers that are armed and not yet fired
  connecting,   \* connect() calls suspended at the health probe
  polls,        \* bag of poll() calls suspended at a network call
  disc,         \* history: disconnect() was invoked and connect() not since
  last,         \* observation: the cycle whose /pending response was just handled
  settled,      \* observation: the poll() call that just settled
  connRes,      \* observation: the connect() call that just resolved
  outCalls,     \* bag of sendMessage()/setTyping() calls suspended at their POST
  discBusy,     \* history: that disconnect() came while a timer-driven poll
                \* was in flight
  redo,         \* history: the batch whose ack is under way or has failed
                \* (kept only in the redelivery scenario)
  out           \* observation: the other call that was just made or settled

vars == << impl, liveView, registry, connected, pollTimer, armed, connecting,
           polls, disc, last, settled, connRes, outCalls, discBusy, redo, out >>

NoCycle   == [kind |-> "none"]
NoSettle  == [kind |-> "none"]
NoConnect == [kind |-> "none"]
NoOut     == [kind |-> "none"]
NoRedo    == [stage |-> "off"]
Watching  == [stage |-> "watch"]

\* Handlers run one at a time, each to its next suspension (one event-loop
\* task). What a task did is recorded in last, settled, connRes and out for
\* the properties to read, and dropped before the next task runs.
Quiet == last = NoCycle /\ settled = NoSettle /\ connRes = NoConnect /\ out = NoOut


\* ------------------------------------------------- what a cycle did (events)
\* One host callback invocation, or one POST to /api/internal/ack, of a cycle.
\* of, idx: the batch item it was made for ("registration" or "message" and
\* its position); added: for registerGroup, whether the host's callback put
\* the jid into its map before returning.
Event(kind, of, idx, jid, data, added) ==
  [kind |-> kind, of |-> of, idx |-> idx, jid |-> jid, data |-> data, added |-> added]

EventsOf(events, kind) == SelectSeq(events, LAMBDA e : e.kind = kind)

\* --------------------------------------------------------------- the host
\* opts.registerGroup(jid, group) as the host runs it: it validates the group
\* and, when accept holds, stores it under jid before it returns.
hostRegisterGroup(groups, jid, accept) == IF accept THEN groups \cup {jid} ELSE groups

\* ---------------------------------------------- poll(), skill implementation
\* the registration loop recording a conversationId only when it registered
\* the conversation
RECURSIVE pollRegistrations_ackNewOnly(_, _, _, _, _)
pollRegistrations_ackNewOnly(regs, i, view0, accepts, st) ==
  IF i > Len(regs) THEN st
  ELSE
    LET reg == regs[i]
        jid == jidOf(reg.conversationId)
        registeredGroups == IF liveView THEN st.groups ELSE view0
        group == [name |-> reg.name, folder |-> reg.folder, trigger |-> reg.folder,
                  added_at |-> Now, requiresTrigger |-> FALSE]
        st1 == IF jid \notin registeredGroups
               THEN [st EXCEPT
                       !.events = Append(@, Event("registerGroup", "registration", i, jid, group, accepts[i])),
                       !.groups = hostRegisterGroup(@, jid, accepts[i]),
                       !.convIds = Append(@, reg.conversationId)]
               ELSE st
    IN pollRegistrations_ackNewOnly(regs, i + 1, view0, accepts, st1)

\* the registration loop without the check of line 550: every registration
\* of the batch is registered
RECURSIVE pollRegistrations_noCheck(_, _, _, _, _)
pollRegistrations_noCheck(regs, i, view0, accepts, st) ==
  IF i > Len(regs) THEN st
  ELSE
    LET reg == regs[i]
        jid == jidOf(reg.conversationId)
        group == [name |-> reg.name, folder |-> reg.folder, trigger |-> reg.folder,
                  added_at |-> Now, requiresTrigger |-> FALSE]
        st1 == [st EXCEPT
                  !.events = Append(@, Event("registerGroup", "registration", i, jid, group, accepts[i])),
                  !.groups = hostRegisterGroup(@, jid, accepts[i]),
                  !.convIds = Append(@, reg.conversationId)]
    IN pollRegistrations_noCheck(regs, i + 1, view0, accepts, st1)

\* the registration loop storing the group in the map it got from
\* registeredGroups() by itself, whatever the host's registerGroup did
RECURSIVE pollRegistrations_writesMap(_, _, _, _, _)
pollRegistrations_writesMap(regs, i, view0, accepts, st) ==
  IF i > Len(regs) THEN st
  ELSE
    LET reg == regs[i]
        jid == jidOf(reg.conversationId)
        registeredGroups == IF liveView THEN st.groups ELSE view0
        group == [name |-> reg.name, folder |-> reg.folder, trigger |-> reg.folder,
                  added_at |-> Now, requiresTrigger |-> FALSE]
        st1 == IF jid \notin registeredGroups
               THEN [st EXCEPT
                       !.events = Append(@, Event("registerGroup", "registration", i, jid, group, accepts[i])),
                       !.groups = @ \cup {jid}]
               ELSE st
        st2 == [st1 EXCEPT !.convIds = Append(@, reg.conversationId)]
    IN pollRegistrations_writesMap(regs, i + 1, view0, accepts, st2)

\* lines 547-561: the registration loop, from position i on.
\* view0 is what registeredGroups() returned at line 547; with a host that
\* hands out its live map, that object shows later registrations too.
RECURSIVE pollRegistrations(_, _, _, _, _)
pollRegistrations(regs, i, view0, accepts, st) ==
  IF i > Len(regs) THEN st
  ELSE
    LET reg == regs[i]
        jid == jidOf(reg.conversationId)
        registeredGroups == IF liveView THEN st.groups ELSE view0
        group == [name |-> reg.name, folder |-> reg.folder, trigger |-> reg.folder,
                  added_at |-> Now, requiresTrigger |-> FALSE]
        st1 == IF jid \notin registeredGroups
               THEN [st EXCEPT
                       !.events = Append(@, Event("registerGroup", "registration", i, jid, group, accepts[i])),
                       !.groups = hostRegisterGroup(@, jid, accepts[i])]
               ELSE st
        st2 == [st1 EXCEPT !.convIds = Append(@, reg.conversationId)]
    IN pollRegistrations(regs, i + 1, view0, accepts, st2)

\* the message loop recording the id of a skipped message too
RECURSIVE pollMessages_ackSkipped(_, _, _, _)
pollMessages_ackSkipped(msgs, i, currentGroups, st) ==
  IF i > Len(msgs) THEN st
  ELSE
    LET msg == msgs[i]
        jid == jidOf(msg.conversationId)
        timestamp == msg.createdAt
        meta == [timestamp |-> timestamp, name |-> Undefined,
                 channel |-> "web", isGroup |-> FALSE]
        newMsg == [id |-> msg.id, chat_jid |-> jid, sender |-> msg.conversationId,
                   sender_name |-> IF msg.senderName \in {Undefined, ""}
                                   THEN "You" ELSE msg.senderName,
                   content |-> msg.content, timestamp |-> timestamp,
                   is_from_me |-> FALSE, is_bot_message |-> FALSE]
        st1 == IF jid \notin currentGroups
               THEN [st EXCEPT !.msgIds = Append(@, msg.id)]
               ELSE [st EXCEPT
                       !.events = @ \o << Event("onChatMetadata", "message", i, jid, meta, FALSE),
                                          Event("onMessage", "message", i, jid, newMsg, FALSE) >>,
                       !.msgIds = Append(@, msg.id)]
    IN pollMessages_ackSkipped(msgs, i + 1, currentGroups, st1)

\* the message loop leaving out a message whose id it has handed on already
RECURSIVE pollMessages_dedup(_, _, _, _)
pollMessages_dedup(msgs, i, currentGroups, st) ==
  IF i > Len(msgs) THEN st
  ELSE
    LET msg == msgs[i]
        jid == jidOf(msg.conversationId)
        timestamp == msg.createdAt
        meta == [timestamp |-> timestamp, name |-> Undefined,
                 channel |-> "web", isGroup |-> FALSE]
        newMsg == [id |-> msg.id, chat_jid |-> jid, sender |-> msg.conversationId,
                   sender_name |-> IF msg.senderName \in {Undefined, ""}
                                   THEN "You" ELSE msg.senderName,
                   content |-> msg.content, timestamp |-> timestamp,
                   is_from_me |-> FALSE, is_bot_message |-> FALSE]
        seen == \E q \in 1..Len(st.msgIds) : st.msgIds[q] = msg.id
        st1 == IF jid \notin currentGroups \/ seen
               THEN st
               ELSE [st EXCEPT
                       !.events = @ \o << Event("onChatMetadata", "message", i, jid, meta, FALSE),
                                          Event("onMessage", "message", i, jid, newMsg, FALSE) >>,
                       !.msgIds = Append(@, msg.id)]
    IN pollMessages_dedup(msgs, i + 1, currentGroups, st1)

\* lines 566-586: the message loop, from position i on, against currentGroups
\* (the registry as re-read at line 564).
RECURSIVE pollMessages(_, _, _, _)
pollMessages(msgs, i, currentGroups, st) ==
  IF i > Len(msgs) THEN st
  ELSE
    LET msg == msgs[i]
        jid == jidOf(msg.conversationId)
        timestamp == msg.createdAt
        meta == [timestamp |-> timestamp, name |-> Undefined,
                 channel |-> "web", isGroup |-> FALSE]
        newMsg == [id |-> msg.id, chat_jid |-> jid, sender |-> msg.conversationId,
                   sender_name |-> IF msg.senderName \in {Undefined, ""}
                                   THEN "You" ELSE msg.senderName,
                   content |-> msg.content, timestamp |-> timestamp,
                   is_from_me |-> FALSE, is_bot_message |-> FALSE]
        st1 == IF jid \notin currentGroups
               THEN st
               ELSE [st EXCEPT
                       !.events = @ \o << Event("onChatMetadata", "message", i, jid, meta, FALSE),
                                          Event("onMessage", "message", i, jid, newMsg, FALSE) >>,
                       !.msgIds = Append(@, msg.id)]
    IN pollMessages(msgs, i + 1, currentGroups, st1)

\* line 588: whether the cycle posts an ack
ackNeeded(msgIds, convIds) == Len(msgIds) > 0 \/ Len(convIds) > 0

\* lines 588-593: the POST to /api/internal/ack, when the cycle makes one
pollAck(st) ==
  IF ackNeeded(st.msgIds, st.convIds)
  THEN [st EXCEPT
          !.events = Append(@, Event("ack", "cycle", 0, <<>>,
                       [messageIds |-> st.msgIds, conversationIds |-> st.convIds], FALSE)),
          !.next = "ack"]
  ELSE [st EXCEPT !.next = "resolved"]

\* the sets of lines 542-543 kept in fields of the adapter and not emptied:
\* a cycle starts with a message id of an earlier one
EmptyRun_stale(groups) ==
  [groups |-> groups, events |-> <<>>, convIds |-> <<>>, msgIds |-> <<"m1">>,
   next |-> "resolved"]

EmptyRun(groups) ==
  [groups |-> groups, events |-> <<>>, convIds |-> <<>>, msgIds |-> <<>>, next |-> "resolved"]

\* poll() without the try/catch of lines 535-540: a failed fetch rejects
poll_noCatch(status, body, groups, accepts) ==
  IF ~resOk(status) \/ body.isNull
  THEN [EmptyRun(groups) EXCEPT !.next = "rejected"]
  ELSE
    LET st1 == pollRegistrations(body.registrations, 1, groups, accepts, EmptyRun(groups))
        st2 == pollMessages(body.messages, 1, st1.groups, st1)
    IN pollAck(st2)

\* poll() with the registry not re-read at line 564: the message loop runs
\* against what was read before the registration loop
poll_noReread(status, body, groups, accepts) ==
  IF ~resOk(status)
  THEN EmptyRun(groups)
  ELSE IF body.isNull
  THEN [EmptyRun(groups) EXCEPT !.next = "rejected"]
  ELSE
    LET st1 == pollRegistrations(body.registrations, 1, groups, accepts, EmptyRun(groups))
        st2 == pollMessages(body.messages, 1, groups, st1)
    IN pollAck(st2)

\* poll() with the message loop before the registration loop
poll_messagesFirst(status, body, groups, accepts) ==
  IF ~resOk(status)
  THEN EmptyRun(groups)
  ELSE IF body.isNull
  THEN [EmptyRun(groups) EXCEPT !.next = "rejected"]
  ELSE
    LET st1 == pollMessages(body.messages, 1, groups, EmptyRun(groups))
        st2 == pollRegistrations(body.registrations, 1, groups, accepts, st1)
    IN pollAck(st2)

\* lines 532-597, from the /pending response to the first suspension or the
\* return. next: "ack" (suspended at the ack POST), "resolved", "rejected".
poll(status, body, groups, accepts) ==
  IF ~resOk(status)
  THEN EmptyRun(groups)                                   \* 537-540: catch, return
  ELSE IF body.isNull
  THEN [EmptyRun(groups) EXCEPT !.next = "rejected"]      \* 548: data is null
  ELSE
    LET st1 == pollRegistrations(body.registrations, 1, groups, accepts, EmptyRun(groups))
        st2 == pollMessages(body.messages, 1, st1.groups, st1)
    IN pollAck(st2)

\* a failed ack posted once more within the cycle
pollAckDone_retry(status, acks) ==
  IF ~resOk(status) /\ acks < 2
  THEN [next |-> "ack", acks |-> acks + 1]
  ELSE [next |-> "resolved", acks |-> acks]

\* lines 589-596: the ack response arrives. acks: ack POSTs made so far.
pollAckDone(status, acks) == [next |-> "resolved", acks |-> acks]


\* ----------------------------------------------- poll(), core implementation
\* src/channels/web.ts lines 99-113: the registration loop, from position i
\* on. registeredGroups() is called anew for every registration.
RECURSIVE web_pollRegistrations(_, _, _, _)
web_pollRegistrations(regs, i, accepts, st) ==
  IF i > Len(regs) THEN st
  ELSE
    LET reg == regs[i]
        jid == jidOf(reg.conversationId)
        meta == [timestamp |-> Now, name |-> reg.name,
                 channel |-> "web", isGroup |-> FALSE]
        group == [name |-> reg.name, folder |-> reg.folder, trigger |-> "",
                  added_at |-> Now, requiresTrigger |-> FALSE]
        st1 == IF jid \notin st.groups
               THEN [st EXCEPT
                       !.events = @ \o << Event("onChatMetadata", "registration", i, jid, meta, FALSE),
                                          Event("registerGroup", "registration", i, jid, group, accepts[i]) >>,
                       !.groups = hostRegisterGroup(@, jid, accepts[i])]
               ELSE st
        st2 == [st1 EXCEPT !.convIds = Append(@, reg.conversationId)]
    IN web_pollRegistrations(regs, i + 1, accepts, st2)

\* src/channels/web.ts lines 115-128: the message loop, from position i on
RECURSIVE web_pollMessages(_, _, _)
web_pollMessages(msgs, i, st) ==
  IF i > Len(msgs) THEN st
  ELSE
    LET msg == msgs[i]
        jid == jidOf(msg.conversationId)
        newMsg == [id |-> msg.id, chat_jid |-> jid,
                   sender |-> <<"u", "s", "e", "r", "@">> \o jid,
                   sender_name |-> IF msg.senderName = Undefined
                                   THEN "User" ELSE msg.senderName,
                   content |-> msg.content, timestamp |-> msg.createdAt,
                   is_from_me |-> FALSE]
        st1 == [st EXCEPT
                  !.events = Append(@, Event("onMessage", "message", i, jid, newMsg, FALSE)),
                  !.msgIds = Append(@, msg.id)]
    IN web_pollMessages(msgs, i + 1, st1)

\* src/channels/web.ts lines 130-135: the POST to /api/internal/ack
web_pollAck(st) ==
  IF Len(st.convIds) > 0 \/ Len(st.msgIds) > 0
  THEN [st EXCEPT
          !.events = Append(@, Event("ack", "cycle", 0, <<>>,
                       [messageIds |-> st.msgIds, conversationIds |-> st.convIds], FALSE)),
          !.next = "ack"]
  ELSE [st EXCEPT !.next = "resolved"]

\* src/channels/web.ts lines 89-141, from the /pending response to the first
\* suspension or the return. get() throws on a non-2xx status and res.json()
\* on an empty body; both land in the catch at line 136.
web_poll(status, body, groups, accepts) ==
  IF ~resOk(status) \/ body.isNull
  THEN EmptyRun(groups)
  ELSE
    LET st1 == web_pollRegistrations(body.registrations, 1, accepts, EmptyRun(groups))
        st2 == web_pollMessages(body.messages, 1, st1)
    IN web_pollAck(st2)

\* src/channels/web.ts lines 131-138: the ack response arrives; a failure is
\* thrown by post() and caught at line 136.
web_pollAckDone(status, acks) == [next |-> "resolved", acks |-> acks]

\* ------------------------------------------------------------------ timers
\* setTimeout's return value: a handle no armed timer has and pollTimer does
\* not hold.
freshTimer(pt, ar) ==
  CHOOSE t \in TimerIds \ (ar \cup {pt}) : \A u \in TimerIds \ (ar \cup {pt}) : t <= u

\* part_002 lines 522-529: schedulePoll()
schedulePoll(conn, pt, ar) ==
  IF ~conn THEN [pollTimer |-> pt, armed |-> ar]
  ELSE LET t == freshTimer(pt, ar) IN [pollTimer |-> t, armed |-> ar \cup {t}]

\* src/channels/web.ts lines 84-87: schedulePoll()
web_schedulePoll(conn, pt, ar) ==
  IF ~conn THEN [pollTimer |-> pt, armed |-> ar]
  ELSE LET t == freshTimer(pt, ar) IN [pollTimer |-> t, armed |-> ar \cup {t}]

\* the timer callback without the .finally() of line 527: nothing is chained
\* on poll()
afterPoll_noRearm(origin, conn, pt, ar) == [pollTimer |-> pt, armed |-> ar]

\* part_002 lines 525-527: what the timer callback chains on poll(); a direct
\* poll() call has no such continuation.
afterPoll(origin, conn, pt, ar) ==
  IF origin = "timer" THEN schedulePoll(conn, pt, ar)
  ELSE [pollTimer |-> pt, armed |-> ar]

\* src/channels/web.ts lines 138-140: poll()'s own finally
web_afterPoll(origin, conn, pt, ar) == web_schedulePoll(conn, pt, ar)

\* disconnect() without line 508: the cleared handle stays stored
clearPollTimer_keepHandle(pt, ar) == [pollTimer |-> pt, armed |-> ar \ {pt}]

\* part_002 lines 505-509 and src/channels/web.ts lines 38-42: clearTimeout
\* of the stored handle; clearing a fired timer's handle does nothing.
clearPollTimer(pt, ar) ==
  IF pt # NoTimer THEN [pollTimer |-> NoTimer, armed |-> ar \ {pt}]
  ELSE [pollTimer |-> pt, armed |-> ar]

web_clearPollTimer(pt, ar) ==
  IF pt # NoTimer THEN [pollTimer |-> NoTimer, armed |-> ar \ {pt}]
  ELSE [pollTimer |-> pt, armed |-> ar]

\* ------------------------------------------------------------------ counts
InFlight(origin) ==
  LET S == { p \in BagToSet(polls) : p.origin = origin }
      RECURSIVE Sum(_)
      Sum(T) == IF T = {} THEN 0
                ELSE LET p == CHOOSE q \in T : TRUE
                     IN CopiesIn(p, polls) + Sum(T \ {p})
  IN Sum(S)

\* activities alive: armed timers, polls in flight, suspended connects,
\* sendMessage()/setTyping() calls in flight
Chains == Cardinality(armed) + InFlight("timer") + InFlight("direct") + connecting
            + BagCardinality(outCalls)

\* how many activities may be alive at once: in the redelivery scenario (the
\* one in which redo is kept) the adapter runs a single chain of cycles
ChainLimit == IF redo = NoRedo THEN MaxChains ELSE 1

NewPoll(origin) == [origin |-> origin, pc |-> "fetch", acks |-> 0]


\* ----------------------------------------------------------------- Init
Init ==
  /\ impl \in {"skill", "core"}
  /\ liveView \in (IF impl = "skill" THEN BOOLEAN ELSE {TRUE})
  /\ registry \in SUBSET Jids
  /\ connected = FALSE
  /\ pollTimer = NoTimer
  /\ armed = {}
  /\ connecting = 0
  /\ polls = EmptyBag
  /\ disc = FALSE
  /\ last = NoCycle
  /\ settled = NoSettle
  /\ connRes = NoConnect
  /\ outCalls = EmptyBag
  /\ discBusy = FALSE
  /\ redo = NoRedo
  /\ out = NoOut

\* -------------------------------------------- what a call did (records)
\* disconnect() returned; before: the adapter's state when it was called;
\* again: the lifecycle call before this one was a disconnect() too
Disconnected ==
  [kind |-> "disconnect", result |-> "resolved", again |-> disc,
   before |-> [connected |-> connected, pollTimer |-> pollTimer, armed |-> armed]]

\* ----------------------------------------------------------- connect()
\* part_002 lines 463-465: connect() issues the health probe and suspends
connect ==
  /\ Quiet
  /\ impl = "skill"
  /\ Chains < ChainLimit
  /\ connecting' = connecting + 1
  /\ disc' = FALSE /\ discBusy' = FALSE
  /\ last' = NoCycle /\ settled' = NoSettle /\ connRes' = NoConnect /\ out' = NoOut
  /\ UNCHANGED << outCalls, redo, impl, liveView, registry, connected, pollTimer, armed, polls >>

\* connect() without the try/catch of lines 464-472: a failed probe rejects
\* connect() before line 474
connectResume_probeFatal ==
  /\ Quiet
  /\ impl = "skill"
  /\ connecting > 0
  /\ \E status \in Statuses :
       /\ connecting' = connecting - 1
       /\ connected' = (connected \/ resOk(status))
       /\ LET s == IF resOk(status) THEN schedulePoll(TRUE, pollTimer, armed)
                   ELSE [pollTimer |-> pollTimer, armed |-> armed]
          IN pollTimer' = s.pollTimer /\ armed' = s.armed
       /\ connRes' = [kind |-> "connect", probe |-> status,
                      result |-> IF resOk(status) THEN "resolved" ELSE "rejected"]
       /\ last' = NoCycle /\ settled' = NoSettle /\ out' = NoOut
       /\ UNCHANGED << outCalls, discBusy, redo, impl, liveView, registry, polls, disc >>

\* part_002 lines 466-476: the probe settles with status; connect() resumes,
\* sets connected and schedules the first poll
connectResume ==
  /\ Quiet
  /\ impl = "skill"
  /\ connecting > 0
  /\ \E status \in Statuses :
       /\ connecting' = connecting - 1
       /\ connected' = TRUE
       /\ LET s == schedulePoll(TRUE, pollTimer, armed)
          IN pollTimer' = s.pollTimer /\ armed' = s.armed
       /\ connRes' = [kind |-> "connect", probe |-> status, result |-> "resolved"]
       /\ last' = NoCycle /\ settled' = NoSettle /\ out' = NoOut
       /\ UNCHANGED << outCalls, discBusy, redo, impl, liveView, registry, polls, disc >>

\* src/channels/web.ts lines 23-27: connect() has no probe and no suspension
web_connect ==
  /\ Quiet
  /\ impl = "core"
  /\ Chains < ChainLimit
  /\ connected' = TRUE
  /\ LET s == web_schedulePoll(TRUE, pollTimer, armed)
     IN pollTimer' = s.pollTimer /\ armed' = s.armed
  /\ disc' = FALSE /\ discBusy' = FALSE
  /\ connRes' = [kind |-> "connect", probe |-> 200, result |-> "resolved"]
  /\ last' = NoCycle /\ settled' = NoSettle /\ out' = NoOut
  /\ UNCHANGED << outCalls, redo, impl, liveView, registry, connecting, polls >>

\* -------------------------------------------------------- disconnect()
\* part_002 lines 504-511
disconnect ==
  /\ Quiet
  /\ impl = "skill"
  /\ connected' = FALSE
  /\ LET s == clearPollTimer(pollTimer, armed)
     IN pollTimer' = s.pollTimer /\ armed' = s.armed
  /\ disc' = TRUE /\ discBusy' = (InFlight("timer") > 0)
  /\ out' = Disconnected
  /\ last' = NoCycle /\ settled' = NoSettle /\ connRes' = NoConnect
  /\ UNCHANGED << outCalls, redo, impl, liveView, registry, connecting, polls >>

\* src/channels/web.ts lines 37-43
web_disconnect ==
  /\ Quiet
  /\ impl = "core"
  /\ connected' = FALSE
  /\ LET s == web_clearPollTimer(pollTimer, armed)
     IN pollTimer' = s.pollTimer /\ armed' = s.armed
  /\ disc' = TRUE /\ discBusy' = (InFlight("timer") > 0)
  /\ out' = Disconnected
  /\ last' = NoCycle /\ settled' = NoSettle /\ connRes' = NoConnect
  /\ UNCHANGED << outCalls, redo, impl, liveView, registry, connecting, polls >>

\* ------------------------------------------------------- a poll starts
\* part_002 lines 524-525 and src/channels/web.ts line 86: an armed timer
\* fires; its callback calls poll(), which issues GET /api/internal/pending
\* and suspends. The stored handle is left as it is.
timerFires ==
  \E t \in armed :
    /\ Quiet
    /\ armed' = armed \ {t}
    /\ polls' = polls (+) SetToBag({NewPoll("timer")})
    /\ last' = NoCycle /\ settled' = NoSettle /\ connRes' = NoConnect /\ out' = NoOut
    /\ UNCHANGED << outCalls, discBusy, redo, impl, liveView, registry, connected, pollTimer, connecting, disc >>

\* part_002 lines 531-536: poll() called directly (it is exposed for the
\* tests); in src/channels/web.ts poll() is private.
pollDirect ==
  /\ Quiet
  /\ impl = "skill"
  /\ Chains < ChainLimit
  /\ polls' = polls (+) SetToBag({NewPoll("direct")})
  /\ last' = NoCycle /\ settled' = NoSettle /\ connRes' = NoConnect /\ out' = NoOut
  /\ UNCHANGED << outCalls, discBusy, redo, impl, liveView, registry, connected, pollTimer, armed, connecting, disc >>

\* ------------------------------------------- the /pending response arrives
\* redelivered: the batch is the one whose ack failed before; handedBefore:
\* the ids of its messages that the failed cycle handed to onMessage
Cycle(p, status, body, run) ==
  [kind |-> "cycle", origin |-> p.origin, status |-> status, body |-> body,
   groups0 |-> registry, groups1 |-> run.groups, events |-> run.events,
   next |-> run.next,
   redelivered |-> (redo.stage = "failed" /\ resOk(status) /\ body = redo.batch),
   handedBefore |-> IF redo.stage = "failed" THEN redo.handed ELSE <<>>]

\* ---------------------------------------------------- the remote side
\* The claw-chat server in the pending-items scenario: redo then holds what
\* the server has pending (regs, msgs), the ids of the ack that is under way
\* (ackConvs, ackMsgs), and two histories: the ids of the messages a cycle
\* left out and none has handed on since (skipped), and the conversationIds
\* of the registrations the adapter has processed (processed).
NothingPending ==
  [stage |-> "remote", regs |-> {}, msgs |-> {}, ackConvs |-> {}, ackMsgs |-> {},
   skipped |-> {}, processed |-> {}]

Range(sq) == { sq[q] : q \in 1..Len(sq) }

\* the pending items as the arrays of a /pending body
RECURSIVE Listed(_)
Listed(S) ==
  IF S = {} THEN <<>>
  ELSE LET x == CHOOSE y \in S : TRUE IN << x >> \o Listed(S \ {x})

\* GET /api/internal/pending answers with everything that is pending, or fails
RemoteResponses ==
  { [status |-> 200,
     body |-> [isNull |-> FALSE, registrations |-> Listed(redo.regs),
               messages |-> Listed(redo.msgs)]] }
    \cup { [status |-> s, body |-> NullBody] : s \in Statuses \ {200} }

\* the ids of the messages a cycle has passed to onMessage
HandedOn(events) == { e.data.id : e \in Range(EventsOf(events, "onMessage")) }

\* a cycle has handled the /pending response: the server has got the ack the
\* cycle posts, if any, and holds it until the ack's response is out
RemoteAfterPending(status, body, run) ==
  IF ~resOk(status) \/ body.isNull THEN redo
  ELSE [redo EXCEPT
          !.skipped = (@ \cup { m.id : m \in Range(body.messages) }) \ HandedOn(run.events),
          !.processed = @ \cup Range(run.convIds),
          !.ackConvs = IF run.next = "ack" THEN Range(run.convIds) ELSE {},
          !.ackMsgs = IF run.next = "ack" THEN Range(run.msgIds) ELSE {}]

\* POST /api/internal/ack has ended: when it succeeded, the server has marked
\* the listed items consumed
RemoteAfterAck(status, done) ==
  IF done.next = "ack" THEN redo
  ELSE IF resOk(status)
       THEN [redo EXCEPT
               !.regs = { r \in @ : r.conversationId \notin redo.ackConvs },
               !.msgs = { m \in @ : m.id \notin redo.ackMsgs },
               !.ackConvs = {}, !.ackMsgs = {}]
       ELSE [redo EXCEPT !.ackConvs = {}, !.ackMsgs = {}]

\* the batch to remember once a cycle has handled its /pending response: the
\* one it is about to acknowledge
RedoAfterPending(status, body, run) ==
  IF redo.stage = "remote" THEN RemoteAfterPending(status, body, run)
  ELSE IF redo.stage \notin {"watch", "failed"} \/ ~resOk(status) \/ body.isNull THEN redo
  ELSE IF run.next = "ack"
       THEN [stage |-> "acking", batch |-> body, handed |-> run.msgIds]
       ELSE Watching

\* and once the ack response is there: the batch stays remembered when the
\* ack failed
RedoAfterAck(status, done) ==
  IF redo.stage = "remote" THEN RemoteAfterAck(status, done)
  ELSE IF redo.stage # "acking" \/ done.next = "ack" THEN redo
  ELSE IF resOk(status) THEN Watching
       ELSE [redo EXCEPT !.stage = "failed"]

\* acks: the ack POSTs the call made; ackStatus: how the last one ended
Settle(p, result, acks, ackStatus) ==
  [kind |-> "settle", origin |-> p.origin, result |-> result, acks |-> acks,
   ackStatus |-> ackStatus]

\* the poll p leaves the /pending fetch with outcome run
PendingDone(p, status, body, run, after) ==
  /\ registry' = run.groups
  /\ last' = Cycle(p, status, body, run)
  /\ redo' = RedoAfterPending(status, body, run)
  /\ connRes' = NoConnect /\ out' = NoOut
  /\ IF run.next = "ack"
     THEN /\ polls' = (polls (-) SetToBag({p}))
                        (+) SetToBag({[p EXCEPT !.pc = "ack", !.acks = 1]})
          /\ settled' = NoSettle
          /\ UNCHANGED << pollTimer, armed >>
     ELSE /\ polls' = polls (-) SetToBag({p})
          /\ settled' = Settle(p, run.next, 0, NetErr)
          /\ pollTimer' = after.pollTimer /\ armed' = after.armed
  /\ UNCHANGED << outCalls, discBusy, impl, liveView, connected, connecting, disc >>

\* responses GET /api/internal/pending can end in: a status and, with a 2xx
\* status, a body
PendingResponses ==
  { [status |-> s, body |-> b] : s \in {200}, b \in Batches \cup {NullBody} }
    \cup { [status |-> s, body |-> NullBody] : s \in Statuses \ {200} }

\* the responses a fetch can get now: in the pending-items scenario the
\* server answers with what it has pending
Responses == IF redo.stage = "remote" THEN RemoteResponses ELSE PendingResponses

\* part_002 lines 536-597
pollPending ==
  /\ Quiet
  /\ impl = "skill"
  /\ \E p \in { q \in BagToSet(polls) : q.pc = "fetch" }, r \in Responses :
       \E accepts \in [1..Len(r.body.registrations) -> BOOLEAN] :
         PendingDone(p, r.status, r.body,
                     poll(r.status, r.body, registry, accepts),
                     afterPoll(p.origin, connected, pollTimer, armed))

\* src/channels/web.ts lines 91-141
web_pollPending ==
  /\ Quiet
  /\ impl = "core"
  /\ \E p \in { q \in BagToSet(polls) : q.pc = "fetch" }, r \in Responses :
       \E accepts \in [1..Len(r.body.registrations) -> BOOLEAN] :
         PendingDone(p, r.status, r.body,
                     web_poll(r.status, r.body, registry, accepts),
                     web_afterPoll(p.origin, connected, pollTimer, armed))

\* ------------------------------------------------ the ack response arrives
AckDone(p, status, done, after) ==
  /\ last' = NoCycle /\ connRes' = NoConnect /\ out' = NoOut
  /\ redo' = RedoAfterAck(status, done)
  /\ IF done.next = "ack"
     THEN /\ polls' = (polls (-) SetToBag({p}))
                        (+) SetToBag({[p EXCEPT !.acks = done.acks]})
          /\ settled' = NoSettle
          /\ UNCHANGED << pollTimer, armed >>
     ELSE /\ polls' = polls (-) SetToBag({p})
          /\ settled' = Settle(p, done.next, done.acks, status)
          /\ pollTimer' = after.pollTimer /\ armed' = after.armed
  /\ UNCHANGED << outCalls, discBusy, impl, liveView, registry, connected, connecting, disc >>

\* part_002 lines 589-598
pollAcked ==
  /\ Quiet
  /\ impl = "skill"
  /\ \E p \in { q \in BagToSet(polls) : q.pc = "ack" }, status \in Statuses :
       AckDone(p, status, pollAckDone(status, p.acks),
               afterPoll(p.origin, connected, pollTimer, armed))

\* src/channels/web.ts lines 131-141
web_pollAcked ==
  /\ Quiet
  /\ impl = "core"
  /\ \E p \in { q \in BagToSet(polls) : q.pc = "ack" }, status \in Statuses :
       AckDone(p, status, web_pollAckDone(status, p.acks),
               web_afterPoll(p.origin, connected, pollTimer, armed))

\* ------------------------------------------------------- sendMessage()
\* randomUUID()
Uuid == "uuid"

Texts == {"hi"}

\* one HTTP request as request()/post() sends it
Request(method, path, body) == [method |-> method, path |-> path, body |-> body]

\* a call op(jid, arg) was made and is suspended at its POST: the requests it
\* issued so far
Called(op, jid, arg, requests) ==
  [kind |-> "called", op |-> op, jid |-> jid, arg |-> arg, requests |-> requests]

\* a suspended call went on after its POST ended with status, and settled
Returned(op, status, result) ==
  [kind |-> "returned", op |-> op, status |-> status, result |-> result,
   requests |-> <<>>]

\* part_002 lines 479-487: the POST sendMessage() builds
deliverRequest(jid, text) ==
  Request("POST", "/api/internal/deliver",
          [id |-> Uuid, conversationId |-> slice(jid, 4), content |-> text,
           createdAt |-> Now])

\* src/channels/web.ts lines 46-52
web_deliverRequest(jid, text) ==
  Request("POST", "/api/internal/deliver",
          [id |-> Uuid, conversationId |-> slice(jid, 4), content |-> text,
           createdAt |-> Now])

\* part_002 lines 486-493: the try/catch around the POST
sendMessageResult(status) == "resolved"

\* src/channels/web.ts lines 47-52 and 158-160: post() throws on a failed
\* POST and sendMessage() does not catch
web_sendMessageResult(status) == IF resOk(status) THEN "resolved" ELSE "rejected"

\* sendMessage() returning at once, without a POST, when not connected
sendMessage_needsConnection ==
  /\ Quiet
  /\ impl = "skill"
  /\ Chains < ChainLimit
  /\ \E jid \in Jids, text \in Texts :
       out' = Called("sendMessage", jid, text,
                     IF connected THEN << deliverRequest(jid, text) >> ELSE <<>>)
  /\ outCalls' = outCalls (+) SetToBag({"sendMessage"})
  /\ last' = NoCycle /\ settled' = NoSettle /\ connRes' = NoConnect
  /\ UNCHANGED << impl, liveView, registry, connected, pollTimer, armed,
                  connecting, polls, disc, discBusy, redo >>

\* part_002 lines 478-486: sendMessage(jid, text) up to its await
sendMessage ==
  /\ Quiet
  /\ impl = "skill"
  /\ Chains < ChainLimit
  /\ \E jid \in Jids, text \in Texts :
       out' = Called("sendMessage", jid, text, << deliverRequest(jid, text) >>)
  /\ outCalls' = outCalls (+) SetToBag({"sendMessage"})
  /\ last' = NoCycle /\ settled' = NoSettle /\ connRes' = NoConnect
  /\ UNCHANGED << impl, liveView, registry, connected, pollTimer, armed,
                  connecting, polls, disc, discBusy, redo >>

\* src/channels/web.ts lines 45-47
web_sendMessage ==
  /\ Quiet
  /\ impl = "core"
  /\ Chains < ChainLimit
  /\ \E jid \in Jids, text \in Texts :
       out' = Called("sendMessage", jid, text, << web_deliverRequest(jid, text) >>)
  /\ outCalls' = outCalls (+) SetToBag({"sendMessage"})
  /\ last' = NoCycle /\ settled' = NoSettle /\ connRes' = NoConnect
  /\ UNCHANGED << impl, liveView, registry, connected, pollTimer, armed,
                  connecting, polls, disc, discBusy, redo >>

\* part_002 lines 486-494: the POST of a sendMessage() call ends
sendMessageReturns ==
  /\ Quiet
  /\ impl = "skill"
  /\ BagIn("sendMessage", outCalls)
  /\ \E status \in Statuses :
       out' = Returned("sendMessage", status, sendMessageResult(status))
  /\ outCalls' = outCalls (-) SetToBag({"sendMessage"})
  /\ last' = NoCycle /\ settled' = NoSettle /\ connRes' = NoConnect
  /\ UNCHANGED << impl, liveView, registry, connected, pollTimer, armed,
                  connecting, polls, disc, discBusy, redo >>

\* src/channels/web.ts lines 47-53
web_sendMessageReturns ==
  /\ Quiet
  /\ impl = "core"
  /\ BagIn("sendMessage", outCalls)
  /\ \E status \in Statuses :
       out' = Returned("sendMessage", status, web_sendMessageResult(status))
  /\ outCalls' = outCalls (-) SetToBag({"sendMessage"})
  /\ last' = NoCycle /\ settled' = NoSettle /\ connRes' = NoConnect
  /\ UNCHANGED << impl, liveView, registry, connected, pollTimer, armed,
                  connecting, polls, disc, discBusy, redo >>

\* --------------------------------------------------------- setTyping()
\* part_002 lines 514-516: the POST setTyping() builds
typingRequest(jid, isTyping) ==
  Request("POST", "/api/internal/typing",
          [conversationId |-> slice(jid, 4), isTyping |-> isTyping])

\* src/channels/web.ts lines 56-57
web_typingRequest(jid, isTyping) ==
  Request("POST", "/api/internal/typing",
          [conversationId |-> slice(jid, 4), isTyping |-> isTyping])

\* setTyping() without the try/catch of lines 515-519
setTypingResult_noCatch(status) == IF resOk(status) THEN "resolved" ELSE "rejected"

\* part_002 lines 515-519: the try/catch around the POST
setTypingResult(status) == "resolved"

\* src/channels/web.ts lines 57-59: the .catch() on the POST
web_setTypingResult(status) == "resolved"

\* part_002 lines 513-516: setTyping(jid, isTyping) up to its await
setTyping ==
  /\ Quiet
  /\ impl = "skill"
  /\ Chains < ChainLimit
  /\ \E jid \in Jids, isTyping \in BOOLEAN :
       out' = Called("setTyping", jid, isTyping, << typingRequest(jid, isTyping) >>)
  /\ outCalls' = outCalls (+) SetToBag({"setTyping"})
  /\ last' = NoCycle /\ settled' = NoSettle /\ connRes' = NoConnect
  /\ UNCHANGED << impl, liveView, registry, connected, pollTimer, armed,
                  connecting, polls, disc, discBusy, redo >>

\* src/channels/web.ts lines 55-57
web_setTyping ==
  /\ Quiet
  /\ impl = "core"
  /\ Chains < ChainLimit
  /\ \E jid \in Jids, isTyping \in BOOLEAN :
       out' = Called("setTyping", jid, isTyping, << web_typingRequest(jid, isTyping) >>)
  /\ outCalls' = outCalls (+) SetToBag({"setTyping"})
  /\ last' = NoCycle /\ settled' = NoSettle /\ connRes' = NoConnect
  /\ UNCHANGED << impl, liveView, registry, connected, pollTimer, armed,
                  connecting, polls, disc, discBusy, redo >>

\* part_002 lines 515-520: the POST of a setTyping() call ends
setTypingReturns ==
  /\ Quiet
  /\ impl = "skill"
  /\ BagIn("setTyping", outCalls)
  /\ \E status \in Statuses :
       out' = Returned("setTyping", status, setTypingResult(status))
  /\ outCalls' = outCalls (-) SetToBag({"setTyping"})
  /\ last' = NoCycle /\ settled' = NoSettle /\ connRes' = NoConnect
  /\ UNCHANGED << impl, liveView, registry, connected, pollTimer, armed,
                  connecting, polls, disc, discBusy, redo >>

\* src/channels/web.ts lines 57-60
web_setTypingReturns ==
  /\ Quiet
  /\ impl = "core"
  /\ BagIn("setTyping", outCalls)
  /\ \E status \in Statuses :
       out' = Returned("setTyping", status, web_setTypingResult(status))
  /\ outCalls' = outCalls (-) SetToBag({"setTyping"})
  /\ last' = NoCycle /\ settled' = NoSettle /\ connRes' = NoConnect
  /\ UNCHANGED << impl, liveView, registry, connected, pollTimer, armed,
                  connecting, polls, disc, discBusy, redo >>

\* ------------------------------------------------------------ ownsJid()
\* the identifiers the host may ask about
AskedJids ==
  Jids \cup { <<"s", "l", "a", "c", "k", ":", "C", "1">>, <<"t", "g", ":", "1">>,
              <<"a", "b", "c">>, <<"w", "e", "b">>, <<"w", "e", "b", "x", ":", "1">>,
              <<"x", "w", "e", "b", ":", "a">> }

\* ownsJid() testing for "web" without the colon
ownsJid_noColon(jid) == startsWith(jid, <<"w", "e", "b">>)

\* part_002 lines 500-502
ownsJid(jid) == startsWith(jid, WebPrefix)

\* src/channels/web.ts lines 29-31
web_ownsJid(jid) == startsWith(jid, WebPrefix)

\* ownsJid(jid) was called and returned result
Owns(jid, result) ==
  [kind |-> "ownsJid", jid |-> jid, result |-> result, requests |-> <<>>]

\* the host asks the adapter whether a jid is its own
asksOwnsJid ==
  /\ Quiet
  /\ impl = "skill"
  /\ \E jid \in AskedJids : out' = Owns(jid, ownsJid(jid))
  /\ last' = NoCycle /\ settled' = NoSettle /\ connRes' = NoConnect
  /\ UNCHANGED << impl, liveView, registry, connected, pollTimer, armed,
                  connecting, polls, disc, discBusy, redo, outCalls >>

web_asksOwnsJid ==
  /\ Quiet
  /\ impl = "core"
  /\ \E jid \in AskedJids : out' = Owns(jid, web_ownsJid(jid))
  /\ last' = NoCycle /\ settled' = NoSettle /\ connRes' = NoConnect
  /\ UNCHANGED << impl, liveView, registry, connected, pollTimer, armed,
                  connecting, polls, disc, discBusy, redo, outCalls >>

\* ------------------------------------------------------- the constructor
\* what WEBUI_INTERNAL_SECRET can be in the env file and in process.env
SecretSettings == {Undefined, "", "s3cret"}

\* a || b on strings
orElse(a, b) == IF a \in {Undefined, ""} THEN b ELSE a

\* new WebChannel(...) ended: with an adapter holding secret, or by throwing
Constructed(secret, result) ==
  [kind |-> "construct", secret |-> secret, result |-> result,
   adapter |-> (result = "constructed")]

\* part_002 lines 441-461: the constructor reads the secret from the env
\* file, then from process.env, and throws when it has none
WebChannel(envSecret, processSecret) ==
  LET secret == orElse(orElse(envSecret, processSecret), "")
  IN IF secret = "" THEN Constructed(secret, "threw")
     ELSE Constructed(secret, "constructed")

\* src/channels/web.ts line 21: the constructor stores the options it is
\* given
web_WebChannel(secret) == Constructed(secret, "constructed")

\* the channel factory constructs an adapter from the configuration, at
\* startup: before anything is connected or under way
constructs ==
  /\ Quiet
  /\ impl = "skill"
  /\ ~connected /\ Chains = 0
  /\ \E envSecret \in SecretSettings, processSecret \in SecretSettings :
       out' = WebChannel(envSecret, processSecret)
  /\ last' = NoCycle /\ settled' = NoSettle /\ connRes' = NoConnect
  /\ UNCHANGED << impl, liveView, registry, connected, pollTimer, armed,
                  connecting, polls, disc, discBusy, redo, outCalls >>

web_constructs ==
  /\ Quiet
  /\ impl = "core"
  /\ ~connected /\ Chains = 0
  /\ \E secret \in SecretSettings \ {Undefined} : out' = web_WebChannel(secret)
  /\ last' = NoCycle /\ settled' = NoSettle /\ connRes' = NoConnect
  /\ UNCHANGED << impl, liveView, registry, connected, pollTimer, armed,
                  connecting, polls, disc, discBusy, redo, outCalls >>

\* ------------------------------------------------------------ the host
\* the host registers a group on its own (another channel, an IPC request)
hostRegisters ==
  \E jid \in Jids \ registry :
    /\ Quiet
    /\ registry' = registry \cup {jid}
    /\ last' = NoCycle /\ settled' = NoSettle /\ connRes' = NoConnect /\ out' = NoOut
    /\ UNCHANGED << outCalls, discBusy, redo, impl, liveView, connected, pollTimer, armed, connecting, polls, disc >>

\* a user of the web UI opens a conversation: the server has its
\* registration pending
remoteAddsRegistration ==
  /\ Quiet
  /\ redo.stage = "remote"
  /\ Cardinality(redo.regs) + Cardinality(redo.msgs) < MaxBatch
  /\ \E r \in Registrations \ redo.regs : redo' = [redo EXCEPT !.regs = @ \cup {r}]
  /\ UNCHANGED << impl, liveView, registry, connected, pollTimer, armed, connecting,
                  polls, disc, discBusy, outCalls, last, settled, connRes, out >>

\* a user sends a message: the server has it pending
remoteAddsMessage ==
  /\ Quiet
  /\ redo.stage = "remote"
  /\ Cardinality(redo.regs) + Cardinality(redo.msgs) < MaxBatch
  /\ \E m \in Messages \ redo.msgs : redo' = [redo EXCEPT !.msgs = @ \cup {m}]
  /\ UNCHANGED << impl, liveView, registry, connected, pollTimer, armed, connecting,
                  polls, disc, discBusy, outCalls, last, settled, connRes, out >>

\* the task that ran a handler has ended: its record is dropped
taskEnds ==
  /\ ~Quiet
  /\ last' = NoCycle /\ settled' = NoSettle /\ connRes' = NoConnect /\ out' = NoOut
  /\ UNCHANGED << outCalls, discBusy, redo, impl, liveView, registry, connected, pollTimer, armed,
                  connecting, polls, disc >>

Next ==
  \/ connect
  \/ connectResume
  \/ web_connect
  \/ disconnect
  \/ web_disconnect
  \/ timerFires
  \/ pollDirect
  \/ pollPending
  \/ web_pollPending
  \/ pollAcked
  \/ web_pollAcked
  \/ sendMessage
  \/ web_sendMessage
  \/ sendMessageReturns
  \/ web_sendMessageReturns
  \/ setTyping
  \/ web_setTyping
  \/ setTypingReturns
  \/ web_setTypingReturns
  \/ asksOwnsJid
  \/ web_asksOwnsJid
  \/ constructs
  \/ web_constructs
  \/ hostRegisters
  \/ taskEnds

Spec == Init /\ [][Next]_vars

\* The event loop's scheduling: a task that has run ends, and a timer that
\* stays armed fires once the loop is free (it is free again and again, so
\* the timer's turn comes although other tasks run in between).
Fires(t) == timerFires /\ t \in armed /\ t \notin armed'

\* One adapter connected once, its cycles one after the other, and the batch
\* of a cycle remembered while its ack is under way and after it failed.
RedeliveryInit ==
  /\ impl \in {"skill", "core"}
  /\ liveView \in (IF impl = "skill" THEN BOOLEAN ELSE {TRUE})
  /\ registry \in SUBSET Jids
  /\ connected = FALSE /\ pollTimer = NoTimer /\ armed = {}
  /\ connecting = 0 /\ polls = EmptyBag /\ outCalls = EmptyBag
  /\ disc = FALSE /\ discBusy = FALSE
  /\ redo = Watching
  /\ last = NoCycle /\ settled = NoSettle /\ connRes = NoConnect /\ out = NoOut

RedeliverySpec == RedeliveryInit /\ [][Next]_vars

\* One adapter, its cycles one after the other, polling a server that keeps
\* what is pending until an ack for it has succeeded.
PendingInit ==
  /\ impl \in {"skill", "core"}
  /\ liveView \in (IF impl = "skill" THEN BOOLEAN ELSE {TRUE})
  /\ registry \in SUBSET Jids
  /\ connected = FALSE /\ pollTimer = NoTimer /\ armed = {}
  /\ connecting = 0 /\ polls = EmptyBag /\ outCalls = EmptyBag
  /\ disc = FALSE /\ discBusy = FALSE
  /\ redo = NothingPending
  /\ last = NoCycle /\ settled = NoSettle /\ connRes = NoConnect /\ out = NoOut

PendingNext ==
  \/ connect
  \/ connectResume
  \/ web_connect
  \/ disconnect
  \/ web_disconnect
  \/ timerFires
  \/ pollPending
  \/ web_pollPending
  \/ pollAcked
  \/ web_pollAcked
  \/ hostRegisters
  \/ remoteAddsRegistration
  \/ remoteAddsMessage
  \/ taskEnds

\* a fetch of /pending succeeds
FetchSucceeds == (pollPending \/ web_pollPending) /\ resOk(last'.status) /\ ~last'.body.isNull

\* the response to an ack arrives
AckReturns == pollAcked \/ web_pollAcked

\* Fair polling with eventually successful fetches: tasks end, armed timers
\* fire, a fetch that is tried again and again succeeds at some time, and an
\* ack gets its response.
PendingSpec ==
  /\ PendingInit /\ [][PendingNext]_vars
  /\ WF_vars(taskEnds)
  /\ \A t \in TimerIds : SF_vars(Fires(t))
  /\ SF_vars(FetchSucceeds)
  /\ SF_vars(AckReturns)

LiveSpec ==
  /\ Init /\ [][Next]_vars
  /\ WF_vars(taskEnds)
  /\ \A t \in TimerIds : SF_vars(Fires(t))

TypeOK ==
  /\ impl \in {"skill", "core"}
  /\ registry \subseteq Jids
  /\ connected \in BOOLEAN
  /\ pollTimer \in TimerIds \cup {NoTimer}
  /\ armed \subseteq TimerIds
  /\ connecting \in 0..MaxChains
  /\ BagToSet(outCalls) \subseteq {"sendMessage", "setTyping"}
  /\ Chains <= ChainLimit
  /\ discBusy \in BOOLEAN /\ (discBusy => disc)
  /\ redo.stage \in {"off", "watch", "acking", "failed", "remote"}
  /\ out.kind \in {"none", "called", "returned", "ownsJid", "construct", "disconnect"}


\* ================================================================ claims
InSeq(x, sq) == \E q \in 1..Len(sq) : sq[q] = x

\* the cycle just handled got a batch (2xx with a body)
GotBatch == last.kind = "cycle" /\ resOk(last.status) /\ ~last.body.isNull

LastRegs == last.body.registrations
LastMsgs == last.body.messages

\* the events of the cycle just handled that satisfy P
LastEvents(P(_)) == { n \in 1..Len(last.events) : P(last.events[n]) }

IsRegisterGroup(e) == e.kind = "registerGroup"
IsOnMessage(e)     == e.kind = "onMessage"
IsAck(e)           == e.kind = "ack"

\* C1: in every poll cycle, a batch message whose jid is not in the host's
\* registry when the messages are processed gets neither onMessage nor
\* onChatMetadata, and its id is not in the cycle's ack messageIds.
C1_UnregisteredMessageSkipped ==
  last.kind = "cycle" =>
    \A k \in 1..Len(LastMsgs) :
      jidOf(LastMsgs[k].conversationId) \notin last.groups1 =>
        /\ LastEvents(LAMBDA e : /\ e.kind \in {"onMessage", "onChatMetadata"}
                                 /\ e.of = "message" /\ e.idx = k) = {}
        /\ LastEvents(LAMBDA e : /\ IsAck(e)
                                 /\ InSeq(LastMsgs[k].id, e.data.messageIds)) = {}

\* C2: when one batch holds a registration for a conversation that is not yet
\* registered and a message for it, and the host's registerGroup adds the jid
\* before returning, the cycle hands the message to onMessage, after every
\* registerGroup call, and puts its id in the ack.
C2_MessageOfNewRegistrationForwarded ==
  GotBatch =>
    \A i \in 1..Len(LastRegs), k \in 1..Len(LastMsgs) :
      LET jid == jidOf(LastRegs[i].conversationId) IN
        ( /\ LastMsgs[k].conversationId = LastRegs[i].conversationId
          /\ jid \notin last.groups0
          /\ \A n \in LastEvents(IsRegisterGroup) :
               last.events[n].jid = jid => last.events[n].added )
        =>
        /\ \E n \in LastEvents(IsOnMessage) :
             /\ last.events[n].of = "message" /\ last.events[n].idx = k
             /\ last.events[n].jid = jid
             /\ last.events[n].data.id = LastMsgs[k].id
             /\ \A r \in LastEvents(IsRegisterGroup) : r < n
        /\ \E n \in LastEvents(IsAck) :
             InSeq(LastMsgs[k].id, last.events[n].data.messageIds)

\* C2 happens: the skill implementation, a host that hands out copies, a new
\* registration accepted by the host and a message of it forwarded
C2_Witness ==
  /\ GotBatch /\ impl = "skill" /\ ~liveView
  /\ \E i \in 1..Len(LastRegs), k \in 1..Len(LastMsgs) :
       /\ LastMsgs[k].conversationId = LastRegs[i].conversationId
       /\ jidOf(LastRegs[i].conversationId) \notin last.groups0
       /\ \E n \in LastEvents(IsRegisterGroup) :
            last.events[n].idx = i /\ last.events[n].added
       /\ \E n \in LastEvents(IsOnMessage) : last.events[n].idx = k


\* the conversationIds of the batch's registrations, in batch order
LastConvIds == [i \in 1..Len(LastRegs) |-> LastRegs[i].conversationId]

\* C3: in every cycle whose /pending fetch succeeds, the ack's conversationIds
\* are the conversationIds of all the batch's registrations in batch order,
\* newly registered or already known; with a registration in the batch the
\* ack is sent.
C3_AckListsEveryRegistration ==
  (last.kind = "cycle" /\ resOk(last.status)) =>
    /\ \A n \in LastEvents(IsAck) : last.events[n].data.conversationIds = LastConvIds
    /\ Len(LastRegs) > 0 => LastEvents(IsAck) # {}

\* C3 happens: a batch with a registration the cycle registered and one that
\* was registered already, both acknowledged
C3_Witness ==
  /\ GotBatch /\ Len(LastRegs) = 2
  /\ jidOf(LastRegs[1].conversationId) \in last.groups0
  /\ jidOf(LastRegs[2].conversationId) \notin last.groups0
  /\ LastEvents(IsRegisterGroup) # {}
  /\ \E n \in LastEvents(IsAck) : Len(last.events[n].data.conversationIds) = 2

\* the registered-groups view the adapter holds when it comes to registration
\* i: what registeredGroups() last handed to it. The core implementation
\* calls it for every registration; the skill implementation calls it once
\* before the loop, and a host that hands out its live map shows through it
\* the jids added since.
ViewWhen(i) ==
  IF impl = "core" \/ liveView
  THEN last.groups0 \cup
         { last.events[n].jid :
             n \in LastEvents(LAMBDA e : IsRegisterGroup(e) /\ e.idx < i /\ e.added) }
  ELSE last.groups0

\* C4: in a poll cycle registerGroup is invoked for a batch registration iff
\* its jid is not in the host's registered-groups view, then exactly once,
\* with that jid and the remote-supplied name and folder unmodified; it is
\* not invoked at all for a jid that was registered already.
C4_RegisterGroupIffUnregistered ==
  /\ (last.kind = "cycle" /\ ~GotBatch) => LastEvents(IsRegisterGroup) = {}
  /\ GotBatch =>
       /\ \A n \in LastEvents(IsRegisterGroup) :
            last.events[n].of = "registration" /\ last.events[n].idx \in 1..Len(LastRegs)
       /\ \A i \in 1..Len(LastRegs) :
            LET reg   == LastRegs[i]
                jid   == jidOf(reg.conversationId)
                calls == LastEvents(LAMBDA e : IsRegisterGroup(e) /\ e.idx = i)
            IN /\ Cardinality(calls) = (IF jid \notin ViewWhen(i) THEN 1 ELSE 0)
               /\ \A n \in calls :
                    /\ last.events[n].jid = jid
                    /\ last.events[n].data.name = reg.name
                    /\ last.events[n].data.folder = reg.folder
               /\ jid \in last.groups0 =>
                    LastEvents(LAMBDA e : IsRegisterGroup(e) /\ e.jid = jid) = {}

\* C4 happens: one registration of the batch is registered by the cycle, the
\* other was registered already and is left alone
C4_Witness ==
  /\ GotBatch /\ Len(LastRegs) = 2
  /\ jidOf(LastRegs[1].conversationId) \notin last.groups0
  /\ jidOf(LastRegs[2].conversationId) \in last.groups0
  /\ Cardinality(LastEvents(IsRegisterGroup)) = 1
  /\ \E n \in LastEvents(IsRegisterGroup) : last.events[n].idx = 1

\* C5: a message id is in an ack's messageIds only if onMessage was invoked
\* for that message earlier in the cycle, every message handed to onMessage
\* is in the cycle's ack, and the ack comes after every callback of the cycle.
C5_AckAfterCallbacks ==
  last.kind = "cycle" =>
    /\ \A a \in LastEvents(IsAck) :
         /\ a = Len(last.events)
         /\ \A q \in 1..Len(last.events[a].data.messageIds) :
              \E n \in LastEvents(IsOnMessage) :
                n < a /\ last.events[n].data.id = last.events[a].data.messageIds[q]
    /\ \A n \in LastEvents(IsOnMessage) :
         \E a \in LastEvents(IsAck) :
           n < a /\ InSeq(last.events[n].data.id, last.events[a].data.messageIds)

\* C5 happens: a cycle of the skill implementation that forwarded one message,
\* skipped another and acknowledged
C5_Witness ==
  /\ GotBatch /\ impl = "skill" /\ Len(LastMsgs) = 2
  /\ Cardinality(LastEvents(IsOnMessage)) = 1
  /\ \E a \in LastEvents(IsAck) : Len(last.events[a].data.messageIds) = 1

\* C6: a poll cycle posts to /api/internal/ack at most once, and does so iff
\* it recorded a conversationId (the batch has a registration) or a message
\* id (it handed a message to onMessage); with an empty batch, or a batch of
\* nothing but messages for unregistered conversations, it posts no ack.
C6_AckIffRecorded ==
  /\ last.kind = "cycle" =>
       /\ Cardinality(LastEvents(IsAck)) <= 1
       /\ LastEvents(IsAck) # {} <=>
            (Len(LastRegs) > 0 \/ LastEvents(IsOnMessage) # {})
       /\ ( /\ Len(LastRegs) = 0
            /\ \A k \in 1..Len(LastMsgs) :
                 jidOf(LastMsgs[k].conversationId) \notin last.groups1 )
          => LastEvents(IsAck) = {}
  /\ settled.kind = "settle" => settled.acks <= 1

\* C7: when GET /api/internal/pending fails (network error or non-2xx), the
\* cycle invokes no callback, posts no ack, and poll() resolves.
C7_FetchFailureIsQuiet ==
  (last.kind = "cycle" /\ ~resOk(last.status)) =>
    /\ last.events = <<>>
    /\ settled.kind = "settle"
    /\ settled.result = "resolved"
    /\ settled.acks = 0

\* C7 happens: a directly called poll() whose fetch failed at the network level
C7_Witness ==
  /\ last.kind = "cycle" /\ last.status = NetErr /\ last.origin = "direct"
  /\ settled.kind = "settle"

\* C8: when the ack POST fails the cycle made exactly one ack attempt, poll()
\* resolves, and the cycle has settled: a timer-driven cycle of a connected
\* adapter has armed the next poll timer.
C8_AckFailureSettles ==
  (settled.kind = "settle" /\ settled.acks > 0 /\ ~resOk(settled.ackStatus)) =>
    /\ settled.acks = 1
    /\ settled.result = "resolved"
    /\ (settled.origin = "timer" /\ connected) => pollTimer \in armed

\* C8 happens: a timer-driven cycle of a connected adapter whose ack got a 503
C8_Witness ==
  /\ settled.kind = "settle" /\ settled.acks = 1 /\ settled.ackStatus = 503
  /\ settled.origin = "timer" /\ connected /\ pollTimer \in armed

\* C9: connect() resolves, and when it has, isConnected() is true and a first
\* poll is scheduled, whether the health probe succeeded, returned a non-2xx
\* status or failed at the network level.
C9_ConnectAlwaysConnects ==
  connRes.kind = "connect" =>
    /\ connRes.result = "resolved"
    /\ connected
    /\ pollTimer \in armed

\* C9 happens: connect() has resolved after a probe that failed
C9_Witness ==
  /\ connRes.kind = "connect" /\ ~resOk(connRes.probe)
  /\ connected /\ pollTimer \in armed

\* C10: after disconnect() has been called, and until connect() is called
\* again, isConnected() is false and no timer-driven poll cycle starts.
C10_DisconnectStopsPolling ==
  [][ /\ disc' => ~connected'
      /\ (disc /\ disc') => InFlight("timer")' <= InFlight("timer") ]_vars

\* C11: disconnect() never fails, whatever the adapter's state; after it the
\* adapter is not connected and holds no timer, and the timer it held is not
\* armed; called on an adapter that is already in that state (before any
\* connect(), or right after a disconnect()) it changes nothing.
C11_DisconnectIdempotent ==
  out.kind = "disconnect" =>
    /\ out.result = "resolved"
    /\ ~connected /\ pollTimer = NoTimer
    /\ out.before.pollTimer \notin armed
    /\ (~out.before.connected /\ out.before.pollTimer = NoTimer) =>
         armed = out.before.armed

\* C11 happens: disconnect() is called a second time in a row
C11_Witness ==
  /\ out.kind = "disconnect" /\ out.again
  /\ ~out.before.connected /\ out.before.pollTimer = NoTimer

\* C12: at most one timer-driven poll cycle is in flight at any time, for
\* every interleaving of connect(), disconnect(), timer firings and poll
\* completions.
C12_OnePollInFlight == InFlight("timer") <= 1

\* a timer-driven cycle of a connected adapter has just settled
TimerCycleSettled == settled.kind = "settle" /\ settled.origin = "timer" /\ connected

\* C13: when a timer-driven cycle of a connected adapter settles, however it
\* ended, a new poll timer is armed, and unless the adapter is disconnected
\* that timer fires and starts the next cycle.
C13_PollingGoesOn ==
  /\ [](TimerCycleSettled => pollTimer \in armed)
  /\ \A t \in TimerIds :
       [](TimerCycleSettled /\ pollTimer = t =>
            <>(~connected \/ (t \notin armed /\ InFlight("timer") > 0)))

\* C13 happens: a timer-driven poll() of a connected adapter rejected (a 2xx
\* /pending response without a body) and the next timer is armed
C13_Witness ==
  /\ TimerCycleSettled /\ settled.result = "rejected"
  /\ pollTimer \in armed

\* C14: sendMessage("web:X", text) issues exactly one request, a POST to
\* /api/internal/deliver whose conversationId is X, and the call resolves
\* whether the POST succeeds, returns a non-2xx status or fails at the
\* network level.
C14_SendMessageNeverRaises ==
  /\ (out.kind = "called" /\ out.op = "sendMessage") =>
       /\ Len(out.requests) = 1
       /\ out.requests[1].method = "POST"
       /\ out.requests[1].path = "/api/internal/deliver"
       /\ WebPrefix \o out.requests[1].body.conversationId = out.jid
  /\ (out.kind = "returned" /\ out.op = "sendMessage") =>
       /\ out.requests = <<>>
       /\ out.result = "resolved"

\* C15: setTyping("web:X", b) issues exactly one request, a POST to
\* /api/internal/typing with the body {conversationId: X, isTyping: b}, and
\* the call resolves whether the POST succeeds or fails.
C15_SetTypingNeverRaises ==
  /\ (out.kind = "called" /\ out.op = "setTyping") =>
       /\ Len(out.requests) = 1
       /\ out.requests[1].method = "POST"
       /\ out.requests[1].path = "/api/internal/typing"
       /\ DOMAIN out.requests[1].body = {"conversationId", "isTyping"}
       /\ WebPrefix \o out.requests[1].body.conversationId = out.jid
       /\ out.requests[1].body.isTyping = out.arg
  /\ (out.kind = "returned" /\ out.op = "setTyping") =>
       /\ out.requests = <<>>
       /\ out.result = "resolved"

\* C15 happens: the POST of a setTyping() call failed at the network level
C15_Witness ==
  /\ out.kind = "returned" /\ out.op = "setTyping"
  /\ out.status = NetErr /\ out.result = "resolved"

\* C16: ownsJid(jid) returns true iff jid is "web:" followed by anything; the
\* call makes no network request and leaves the adapter's state as it was.
C16_OwnsJidIsPrefixTest ==
  /\ [](out.kind = "ownsJid" =>
          /\ out.result = (\E n \in 0..Len(out.jid) :
                             out.jid = WebPrefix \o SubSeq(out.jid, n + 1, Len(out.jid)))
          /\ out.requests = <<>>)
  /\ [][out'.kind = "ownsJid" =>
          UNCHANGED << registry, connected, pollTimer, armed, connecting, polls,
                       outCalls >>]_vars

\* C16 happens: ownsJid() is asked about an identifier that has "web:" in it,
\* but not at its start, while a poll is in flight
C16_Witness ==
  /\ out.kind = "ownsJid" /\ ~out.result
  /\ \E n \in 1..Len(out.jid) : startsWith(SubSeq(out.jid, n + 1, Len(out.jid)), WebPrefix)
  /\ polls # EmptyBag

\* an error of the adapter has reached the host: a call of the host was
\* answered with one, or a timer-driven poll() rejected with nothing to catch
\* it (part_002 line 526 catches; src/channels/web.ts line 86 does not)
Raised ==
  \/ out.kind = "construct" /\ out.result = "threw"
  \/ out.kind \in {"returned", "disconnect"} /\ out.result = "rejected"
  \/ connRes.kind = "connect" /\ connRes.result = "rejected"
  \/ /\ settled.kind = "settle" /\ settled.origin = "timer"
     /\ settled.result = "rejected" /\ impl = "core"

\* C17: constructing the adapter without a shared secret (absent or empty in
\* the env file and in the process environment) throws and yields no
\* adapter, and no other call of the host is answered with an error.
C17_OnlyMissingSecretRaises ==
  /\ (out.kind = "construct" /\ out.secret = "") =>
       (out.result = "threw" /\ ~out.adapter)
  /\ Raised => (out.kind = "construct" /\ out.secret = "")

\* the sender_name an implementation gives a message that has no senderName
Fallback == IF impl = "skill" THEN "You" ELSE "User"

\* C18: for every batch message whose jid is in the registry, the cycle calls
\* onChatMetadata with the message's createdAt and after it onMessage with a
\* record whose id, content and timestamp are the received id, content and
\* createdAt, chat_jid = web:<conversationId>, sender non-empty, sender_name
\* the received senderName or the fallback when there is none, is_from_me =
\* false and is_bot_message = false.
C18_MessageMapping ==
  last.kind = "cycle" =>
    \A k \in 1..Len(LastMsgs) :
      LET msg == LastMsgs[k]
      IN jidOf(msg.conversationId) \in last.groups1 =>
           \E n \in 1..Len(last.events), m \in 1..Len(last.events) :
             LET meta == last.events[n]
                 call == last.events[m]
             IN /\ n < m
                /\ meta.kind = "onChatMetadata" /\ meta.of = "message" /\ meta.idx = k
                /\ meta.jid = jidOf(msg.conversationId)
                /\ meta.data.timestamp = msg.createdAt
                /\ call.kind = "onMessage" /\ call.of = "message" /\ call.idx = k
                /\ call.data.id = msg.id
                /\ call.data.content = msg.content
                /\ call.data.timestamp = msg.createdAt
                /\ call.data.chat_jid = WebPrefix \o msg.conversationId
                /\ call.data.sender # <<>>
                /\ call.data.sender_name =
                     (IF msg.senderName = Undefined THEN Fallback ELSE msg.senderName)
                /\ call.data.is_from_me = FALSE
                /\ "is_bot_message" \in DOMAIN call.data
                /\ call.data.is_bot_message = FALSE

\* C19: once disconnect() was called while a timer-driven poll cycle was in
\* flight, and as long as connect() is not called again, no new poll timer is
\* armed and no further timer-driven cycle starts; disconnect() leaves the
\* polls in flight as they are.
C19_DisconnectDuringCycle ==
  [][ /\ (discBusy /\ discBusy') =>
           (armed' \subseteq armed /\ InFlight("timer")' <= InFlight("timer"))
      /\ out'.kind = "disconnect" => polls' = polls ]_vars

\* C20: when the ack of a cycle failed and the remote side delivers the same
\* batch again, the cycle that gets it hands every message of the batch whose
\* conversation is registered to onMessage again and lists its id in the ack
\* it posts.
C20_RedeliveryIsHandedOnAgain ==
  (last.kind = "cycle" /\ last.redelivered) =>
    \A k \in 1..Len(LastMsgs) :
      jidOf(LastMsgs[k].conversationId) \in last.groups1 =>
        /\ LastEvents(LAMBDA e : IsOnMessage(e) /\ e.idx = k
                                    /\ e.data.id = LastMsgs[k].id) # {}
        /\ LastEvents(LAMBDA e : IsAck(e)
                                    /\ InSeq(LastMsgs[k].id, e.data.messageIds)) # {}

\* C20 happens: a batch whose ack failed comes again, and a message the host
\* got in the failed cycle reaches it a second time
C20_Witness ==
  /\ last.kind = "cycle" /\ last.redelivered
  /\ \E n \in LastEvents(IsOnMessage) : InSeq(last.events[n].data.id, last.handedBefore)
  /\ LastEvents(IsAck) # {}

\* where a callback invocation stands in the order of the batch: the
\* registrations first, then the messages, each in array order
Rank(e) == IF e.of = "registration" THEN e.idx ELSE Len(LastRegs) + e.idx

\* C22: within one poll cycle every registerGroup invocation precedes every
\* onMessage invocation, the registrations are processed in batch array
\* order and the messages are handed to onMessage in batch array order.
C22_BatchOrder ==
  last.kind = "cycle" =>
    \A n \in 1..Len(last.events), m \in 1..Len(last.events) :
      LET a == last.events[n]
          b == last.events[m]
      IN (n < m /\ ~IsAck(a) /\ ~IsAck(b)) =>
           /\ Rank(a) <= Rank(b)
           /\ IsOnMessage(a) => ~IsRegisterGroup(b)
           /\ (a.kind = b.kind /\ a.kind \in {"registerGroup", "onMessage"}) =>
                a.idx < b.idx

\* C22 happens: a cycle registers one conversation and hands on a message of
\* another one
C22_Witness ==
  /\ last.kind = "cycle"
  /\ \E n \in LastEvents(IsRegisterGroup), m \in LastEvents(IsOnMessage) :
       last.events[n].jid # last.events[m].jid

\* the jids the host's registerGroup stored during the given invocations
AddedBy(events) ==
  { events[n].jid : n \in { q \in 1..Len(events) :
                              IsRegisterGroup(events[q]) /\ events[q].added } }

\* C23: the host's registered-groups map changes only by what the host's
\* registerGroup callback stores when a poll cycle invokes it (or by the host
\* on its own), and connect, disconnect, sendMessage, setTyping and ownsJid
\* invoke no host callback and leave the map as it is.
C23_RegistryOnlyViaCallback ==
  [][ /\ registry' # registry =>
           \/ hostRegisters
           \/ last'.kind = "cycle" /\ registry' = registry \cup AddedBy(last'.events)
      /\ (out'.kind # "none" \/ connRes'.kind # "none") =>
           (last'.kind = "none" /\ registry' = registry) ]_vars

\* C23 happens: a cycle invoked registerGroup, the host refused the group, and
\* the map is as it was
C23_Witness ==
  /\ last.kind = "cycle"
  /\ \E n \in LastEvents(IsRegisterGroup) : ~last.events[n].added
  /\ last.groups1 = last.groups0

\* C24: a sendMessage() or setTyping() call, at its start and at its return,
\* leaves the connected flag, the poll timer, the polls in flight (with the
\* acks they made) and the registry as they are, and issues its one POST
\* whatever the adapter's state.
C24_OutboundCallsAreApart ==
  /\ [][out'.kind \in {"called", "returned"} =>
          UNCHANGED << connected, pollTimer, armed, connecting, polls, registry >>]_vars
  /\ [](out.kind = "called" =>
          /\ Len(out.requests) = 1
          /\ out.requests[1].path = (IF out.op = "sendMessage" THEN "/api/internal/deliver"
                                     ELSE "/api/internal/typing")
          /\ WebPrefix \o out.requests[1].body.conversationId = out.jid)
  /\ [](out.kind = "returned" => out.requests = <<>>)

\* C24 happens: a sendMessage() call is made on a disconnected adapter while
\* a poll awaits the response to its ack
C24_Witness ==
  /\ out.kind = "called" /\ out.op = "sendMessage"
  /\ ~connected
  /\ \E p \in BagToSet(polls) : p.pc = "ack"

\* C25: the ids a cycle sends in its ack are conversationIds of the
\* registrations and ids of the messages of the batch that same cycle
\* fetched, also when the ack of an earlier cycle failed; a cycle that got no
\* batch sends no ack.
C25_AckOnlyOfThisBatch ==
  last.kind = "cycle" =>
    \A n \in LastEvents(IsAck) :
      /\ GotBatch
      /\ \A q \in 1..Len(last.events[n].data.messageIds) :
           \E k \in 1..Len(LastMsgs) : LastMsgs[k].id = last.events[n].data.messageIds[q]
      /\ \A q \in 1..Len(last.events[n].data.conversationIds) :
           \E i \in 1..Len(LastRegs) :
             LastRegs[i].conversationId = last.events[n].data.conversationIds[q]

\* C25 happens: after a cycle whose ack failed, a cycle gets another batch
\* and posts an ack that leaves out a message id of the failed one
C25_Witness ==
  /\ last.kind = "cycle" /\ ~last.redelivered
  /\ \E n \in LastEvents(IsAck), q \in 1..Len(last.handedBefore) :
       ~InSeq(last.handedBefore[q], last.events[n].data.messageIds)

\* C26: at most one poll timer is armed at any time, and the stored handle
\* is the handle of that timer.
C26_OneTimerArmed ==
  /\ Cardinality(armed) <= 1
  /\ \A t \in armed : pollTimer = t

\* C27: when disconnect() was invoked after connect() and every connect()
\* call has resolved, the adapter is not connected and no poll timer is
\* armed.
C27_LastLifecycleCallWins ==
  (disc /\ connecting = 0) => (~connected /\ armed = {})

\* C28: in a cycle in which the host stored the group in its map at every
\* registerGroup invocation, registerGroup is invoked at most once for a
\* jid, and not at all for a jid that was in the map before the cycle (as are
\* the jids registered by earlier cycles).
C28_RegisterGroupOncePerJid ==
  (last.kind = "cycle" /\ \A n \in LastEvents(IsRegisterGroup) : last.events[n].added) =>
    \A n \in LastEvents(IsRegisterGroup), m \in LastEvents(IsRegisterGroup) :
      /\ last.events[n].jid \notin last.groups0
      /\ last.events[n].jid = last.events[m].jid => n = m

\* the message was left out by a cycle and has not been handed on since
Skipped(m) == m.id \in redo.skipped

\* C21 as stated: a message left out by a cycle is eventually handed to
\* onMessage once the adapter has processed a registration of its
\* conversation, as long as the adapter stays connected.
C21_SkippedIsHandedOnceProcessed ==
  \A m \in Messages :
    [](Skipped(m) /\ m.conversationId \in redo.processed
         => <>(~Skipped(m) \/ ~connected))

\* C21, amended: a message left out by a cycle is not acknowledged and stays
\* pending on the server, and it is eventually handed to onMessage once its
\* conversation is in the host's registry, as long as the adapter stays
\* connected.
C21_SkippedIsHandedOnceRegistered ==
  /\ \A m \in Messages : [](Skipped(m) => m \in redo.msgs /\ m.id \notin redo.ackMsgs)
  /\ \A m \in Messages :
       [](Skipped(m) /\ jidOf(m.conversationId) \in registry
            => <>(~Skipped(m) \/ ~connected))

\* C21 happens: the adapter is connected, a message that a cycle left out is
\* pending, and its conversation has been registered since
C21_Witness ==
  /\ redo.stage = "remote" /\ connected
  /\ \E m \in Messages :
       /\ Skipped(m) /\ m.conversationId \in redo.processed
       /\ jidOf(m.conversationId) \in registry

====
